---- MODULE Spec2Model ----
(***************************************************************************)
(* owsombra/chat-downloader: the Chzzk live-chat downloader                *)
(* (chat_downloader/sites/chzzk.py) and the Soop one (sites/soop.py).      *)
(*   Spec          the live source: get_chat_by_channel_id,                *)
(*                 connect_websocket, the WebSocketApp callbacks on their  *)
(*                 thread, the queue.Queue bridge, the message generator   *)
(*                 and terminate();                                        *)
(*   FairSpec      Spec with the threads' scheduling;                      *)
(*   SpecVod       the archived source: _get_chat_messages_by_vod_id;      *)
(*   SpecRetry     the remote calls of both under the retry policy;        *)
(*   SpecParse     _parse_chat alone, over the raw records;                *)
(*   SpecFrames    on_message on one connection, over every kind of frame; *)
(*   SpecReconnect the close-then-reconnect cycle alone;                   *)
(*   SpecSoop      the Soop downloader's handle and generators.            *)
(* Thread 0 is the caller's thread (it opens the chat and then consumes    *)
(* the generator); thread n >= 1 runs WebSocketApp n's run_forever.        *)
(***************************************************************************)
EXTENDS Integers, Sequences, FiniteSets, TLC

\* ------------------------------------------------------------------ bounds
MaxConns == 2        \* WebSocketApp objects created in one run
MaxFrames == 2       \* frames the server sends in one run, connect-acks aside
MaxPosts == 2        \* chat messages posted in the channel in one run
MaxPages == 2        \* pages of an archived chat
MaxReconnects == 6   \* closures by the server in one run of the reconnect cycle
MaxPulls == 4        \* pulls of a Soop handle's sequence in one run

\* ------------------------------------------------------- program constants
CMD_PING == 0
CMD_PONG == 10000
CMD_CONNECT == 100
CMD_CONNECTED == 10100
CMD_REQUEST_RECENT_CHAT == 5101
CMD_RESPONSE_RECENT_CHAT == 15101
CMD_CHAT == 93101
TEXT == 1
SYSTEM_MESSAGE == 30
SYSTEM_ANNOUNCE == 121
RecentMessageCount == 50
DefaultMaxRetries == 5   \* self.max_retries = 5

\* the thread that calls get_chat_by_channel_id and consumes the generator
Main == 0
Conns == 1..MaxConns
Threads == 0..MaxConns

VARIABLES
    max_retries,       \* self.max_retries
    terminated,        \* self.terminated
    websocket,         \* self.websocket: -1 attribute never assigned, else a connection
    websocket_thread,  \* self.websocket_thread: 0 is None, else a thread
    sid,               \* self.sid
    queue,             \* self.queue
    pc,                \* where each thread is
    attempt,           \* attempts made in the retry loop a thread is in
    connState,         \* per WebSocketApp: "none", "new", "open", "server_closed", "client_closed"
    closeCalls,        \* per WebSocketApp: close() calls made by terminate()
    joinCalls,         \* per thread: join() calls made on it by terminate()
    teardowns,         \* runs of terminate()
    sent,              \* per WebSocketApp: what send_json sent, in order
    nframes,           \* frames on_message has handled, connect-acks aside
    lastFrame,         \* the frame on_message handled last, and its connection
    pushed,            \* every record put on the queue, in order
    received,          \* every record the generator took from the queue, in order
    lastYield,         \* the generator's latest yield and where it came from
    chatLog,           \* the server's side: the channel's messages, in order
    serverCloses,      \* closures the server made
    acked,             \* the server's side: connections it sent the connect-ack
    answered,             \* the server's side: connections it sent the recent history
    errors,            \* exceptions raised so far, by thread
    status,            \* the Chat's status
    vodPc,             \* where the archived source's generator is
    cursor,            \* next_player_message_time, -1 for None
    vodAttempt,        \* attempt_number of the retry loop
    vodPending,        \* the chats of the page being yielded, not yet parsed
    vodYielded,        \* what the generator has yielded, in order
    vodPages,          \* the pages fetched, in order
    vodRequested,      \* the cursor of the latest page request, -1 before any
    parse,             \* the normalizer alone: a raw record and what _parse_chat made of it
    rc,                \* the reconnect cycle alone: where it is and what it has done
    soop               \* the Soop downloader: its handle, sessions, thread and queue

liveVars == <<max_retries, terminated, websocket, websocket_thread, sid, queue, pc,
              attempt, connState, closeCalls, joinCalls, teardowns, sent, nframes, lastFrame,
              pushed, received, lastYield, chatLog, serverCloses, errors, status, acked, answered>>
vodVars == <<vodPc, cursor, vodAttempt, vodPending, vodYielded, vodPages, vodRequested>>
auxVars == <<parse, rc, soop>>
vars == <<liveVars, vodVars, auxVars>>

\* ------------------------------------------------------- Message Normalizer
\* A raw chat record as the server sends it.  A time or type code of 0 and a
\* user id of "" stand for a missing (or falsy) field; profile and extras
\* carry how the nested payload is encoded.
Absent == [enc |-> "absent", nickname |-> "", subscription |-> "None", payAmount |-> 0]
JsonObj(nick, sub, pay) ==
    [enc |-> "json", nickname |-> nick, subscription |-> sub, payAmount |-> pay]
Enc(e) == [enc |-> e, nickname |-> "", subscription |-> "None", payAmount |-> 0]

Empty == [kind |-> "empty"]
Raised == [kind |-> "raise"]

\* a or b
Or(a, b, falsy) == IF a # falsy THEN a ELSE b

\* str(ChatType(code))
ChatTypeStr(code) ==
    CASE code = 1 -> "text_message"
      [] code = 2 -> "image_message"
      [] code = 3 -> "sticker_message"
      [] code = 5 -> "rich_message"
      [] code = 10 -> "donation_message"
      [] code = 11 -> "subscription_message"
      [] code = 30 -> "system_message"
      [] code = 121 -> "system_announce"
      [] OTHER -> "unknown_message_" \o ToString(code)

\* orjson.loads of a nested payload: "ok" with a dict, "notdict" (the JSON
\* literal null), or "raise" (undecodable text, or a value that is no text).
Loads(p) ==
    CASE p.enc = "json" -> "dict"
      [] p.enc = "nullstr" -> "notdict"
      [] OTHER -> "raise"

\* an id made of the user id alone
MessageIdOfUser(user_id, message_time) == <<user_id>>

\* f'{user_id}-{message_time}': the time is a non-negative number, so the text
\* after the last '-' is the time and the text before it the user id; the pair
\* stands for the string.
MessageId(user_id, message_time) == <<user_id, message_time>>

ParseChat(chat) ==
    LET message_time == Or(chat.messageTime, chat.msgTime, 0)
        message_type == Or(chat.messageTypeCode, chat.msgTypeCode, 0)
        user_id == Or(chat.userIdHash, Or(chat.uid, chat.userId, ""), "")
        profileFalsy == chat.profile.enc \in {"none", "emptystr"}
        rawProfile == IF chat.profile.enc = "absent" THEN JsonObj("", "None", 0)
                      ELSE chat.profile
        extrasFalsy == chat.extras.enc \in {"absent", "none", "emptystr"}
        rawExtras == IF extrasFalsy THEN JsonObj("", "None", 0) ELSE chat.extras
        isDictProfile == ~profileFalsy /\ Loads(rawProfile) = "dict"
    IN  IF message_time = 0 THEN Empty
        ELSE IF message_type \in {SYSTEM_MESSAGE, SYSTEM_ANNOUNCE} THEN Empty
        ELSE IF chat.profile.enc = "absent" /\ chat.extras.enc = "absent" THEN Empty
        ELSE IF ~profileFalsy /\ Loads(rawProfile) = "raise" THEN Raised
        ELSE IF Loads(rawExtras) # "dict" THEN Raised
        ELSE [kind |-> "data",
              message_id |-> MessageId(user_id, message_time),
              timestamp |-> message_time * 1000,
              message_type |-> ChatTypeStr(message_type),
              author_id |-> user_id,
              display_name |-> IF isDictProfile THEN rawProfile.nickname ELSE "",
              subscription |-> IF isDictProfile THEN rawProfile.subscription ELSE "None",
              pay_amount |-> rawExtras.payAmount]

\* ------------------------------------------------------------ the server
\* The kinds of message a channel carries.  The server stamps a message with
\* the time it was posted; a live chat event names its fields msgTime, uid and
\* msgTypeCode, the recent-history response messageTime, userId and
\* messageTypeCode.
Kinds == {"text", "system", "badprofile"}

KindUser(k) == IF k = "system" THEN "u2" ELSE "u1"
KindType(k) == IF k = "system" THEN SYSTEM_MESSAGE ELSE TEXT
KindProfile(k) == IF k = "badprofile" THEN Enc("bad") ELSE JsonObj("nick", "None", 0)
KindExtras(k) == IF k = "text" THEN JsonObj("", "None", 0) ELSE Absent
KindTime(k, t) == t

LiveRecord(m) ==
    [messageTime |-> 0, msgTime |-> KindTime(m.kind, m.time),
     messageTypeCode |-> 0, msgTypeCode |-> KindType(m.kind),
     userIdHash |-> "", uid |-> KindUser(m.kind), userId |-> "",
     profile |-> KindProfile(m.kind), extras |-> KindExtras(m.kind)]
RecentRecord(m) ==
    [messageTime |-> KindTime(m.kind, m.time), msgTime |-> 0,
     messageTypeCode |-> KindType(m.kind), msgTypeCode |-> 0,
     userIdHash |-> "", uid |-> "", userId |-> KindUser(m.kind),
     profile |-> KindProfile(m.kind), extras |-> KindExtras(m.kind)]

\* a body of messages, as a chat event and as a recent-history response
LiveRecords(ms) == [i \in 1..Len(ms) |-> LiveRecord(ms[i])]
RecentRecords(ms) == [i \in 1..Len(ms) |-> RecentRecord(ms[i])]

Last(s, n) == IF Len(s) <= n THEN s ELSE SubSeq(s, Len(s) - n + 1, Len(s))

\* ------------------------------------------------------- wire messages
ConnectMsg == [cmd |-> CMD_CONNECT, tid |-> 1, sid |-> "", recentMessageCount |-> 0]
RequestRecentMsg(s) ==
    [cmd |-> CMD_REQUEST_RECENT_CHAT, tid |-> 2, sid |-> s,
     recentMessageCount |-> RecentMessageCount]
PongMsg == [cmd |-> CMD_PONG, tid |-> 0, sid |-> "", recentMessageCount |-> 0]

\* the session id the server gives a connection
SidOf(c) == "S" \o ToString(c)
\* text: "" is an empty message; shape: the type of the frame's bdy
Frame(c, s, shape, msgs) ==
    [text |-> "json", cmd |-> c, sid |-> s, shape |-> shape, msgs |-> msgs]
EmptyMessage == [text |-> "", cmd |-> -1, sid |-> "", shape |-> "none", msgs |-> <<>>]

\* WebSocketApp.close(): the connection is closed, if it was not yet
Closed == {"server_closed", "client_closed"}
Close(c) ==
    IF connState[c] \in Closed THEN connState
    ELSE [connState EXCEPT ![c] = "client_closed"]

IsAlive(t) == t # 0 /\ pc[t] \notin {"unborn", "dead"}
NumConns == Cardinality({c \in Conns : connState[c] # "none"})

Raise(t, e) == errors' = errors \cup {<<t, e>>}

\* ------------------------------------------------------------ opening
\* connect_websocket, its first statement: close() on the connection whose
\* thread is alive
CloseRunning ==
    IF IsAlive(websocket_thread) /\ websocket \in Conns
    THEN Close(websocket)
    ELSE connState

\* get_chat_by_channel_id up to connect_websocket's call of get_channel_detail
GetChatByChannelId ==
    /\ pc[Main] = "start"
    /\ connState' = CloseRunning
    /\ pc' = [pc EXCEPT ![Main] = "cw_detail"]
    /\ UNCHANGED <<max_retries, terminated, websocket, websocket_thread, sid, queue,
                   attempt, closeCalls, joinCalls, teardowns, sent, nframes, lastFrame,
                   pushed, received, lastYield, chatLog, serverCloses, errors, status,
                   acked, answered>>
    /\ UNCHANGED <<vodVars, auxVars>>

\* a loop that makes one attempt more than max_retries
MoreAttemptsOffByOne(made) == made < max_retries + 1

\* range(self.max_retries): whether another attempt follows `made` failed ones
MoreAttempts(made) == made < max_retries

\* what a thread does when connect_websocket returns is_live = False to it
NotLiveReturn(t) == IF t = Main THEN "created" ELSE "term1"
\* an opening call that swallows the exception and hands out a handle
RaisedReturnSwallowed(t) == IF t = Main THEN "created" ELSE "dead"

\* what a thread does when an exception leaves connect_websocket
RaisedReturn(t) == IF t = Main THEN "open_failed" ELSE "dead"

\* get_channel_detail: one request of the live detail
GetChannelDetail(t) ==
    /\ pc[t] = "cw_detail"
    /\ \E outcome \in {"fail", "OPEN", "CLOSE"} :
        \/ /\ outcome = "fail"
           /\ attempt' = [attempt EXCEPT ![t] = @ + 1]
           /\ IF MoreAttempts(attempt[t] + 1)
              THEN UNCHANGED <<pc, errors>>
              ELSE /\ Raise(t, "UserNotFound")
                   /\ pc' = [pc EXCEPT ![t] = RaisedReturn(t)]
           /\ UNCHANGED status
        \/ /\ outcome = "OPEN"
           /\ attempt' = [attempt EXCEPT ![t] = 0]
           /\ pc' = [pc EXCEPT ![t] = "cw_token"]
           /\ UNCHANGED <<errors, status>>
        \/ /\ outcome = "CLOSE"
           /\ pc' = [pc EXCEPT ![t] = NotLiveReturn(t)]
           /\ status' = IF t = Main THEN "upcoming" ELSE status
           /\ attempt' = [attempt EXCEPT ![t] = 0]
           /\ UNCHANGED errors
    /\ UNCHANGED <<max_retries, terminated, websocket, websocket_thread, sid, queue,
                   connState, closeCalls, joinCalls, teardowns, sent, nframes, lastFrame,
                   pushed, received, lastYield, chatLog, serverCloses, acked, answered>>
    /\ UNCHANGED <<vodVars, auxVars>>

\* get_chat_access_token: one request of the token; on success the rest of
\* connect_websocket: a new WebSocketApp and its thread, started
GetChatAccessToken(t) ==
    /\ pc[t] = "cw_token"
    /\ \E ok \in BOOLEAN :
        \/ /\ ~ok
           /\ attempt' = [attempt EXCEPT ![t] = @ + 1]
           /\ IF MoreAttempts(attempt[t] + 1)
              THEN UNCHANGED <<pc, errors>>
              ELSE /\ Raise(t, "SiteError")
                   /\ pc' = [pc EXCEPT ![t] = RaisedReturn(t)]
           /\ UNCHANGED <<websocket, websocket_thread, connState, status>>
        \/ /\ ok
           /\ LET n == NumConns + 1 IN
              /\ websocket' = n
              /\ websocket_thread' = n
              /\ connState' = [connState EXCEPT ![n] = "new"]
              /\ pc' = [pc EXCEPT ![n] = "starting",
                                  ![t] = IF t = Main THEN "created" ELSE "dead"]
           /\ status' = IF t = Main THEN "live" ELSE status
           /\ attempt' = [attempt EXCEPT ![t] = 0]
           /\ UNCHANGED errors
    /\ UNCHANGED <<max_retries, terminated, sid, queue,
                   closeCalls, joinCalls, teardowns, sent, nframes, lastFrame,
                   pushed, received, lastYield, chatLog, serverCloses, acked, answered>>
    /\ UNCHANGED <<vodVars, auxVars>>

\* ------------------------------------------------- the websocket thread
\* on_open, called by run_forever once the socket is connected
on_open(t) ==
    /\ pc[t] = "starting"
    /\ connState[t] = "new"
    /\ connState' = [connState EXCEPT ![t] = "open"]
    /\ sent' = [sent EXCEPT ![websocket] = Append(@, ConnectMsg)]
    /\ pc' = [pc EXCEPT ![t] = "reading"]
    /\ UNCHANGED <<max_retries, terminated, websocket, websocket_thread, sid, queue,
                   attempt, closeCalls, joinCalls, teardowns, nframes, lastFrame,
                   pushed, received, lastYield, chatLog, serverCloses, errors, status,
                   acked, answered>>
    /\ UNCHANGED <<vodVars, auxVars>>

\* the for loop of on_message: every record is parsed and its result put on
\* the queue; an exception leaves the loop (the handler's except logs it)
RECURSIVE PutAll(_)
PutAll(chat_msgs) ==
    IF chat_msgs = <<>> THEN <<>>
    ELSE LET data == ParseChat(Head(chat_msgs))
         IN  IF data.kind = "raise" THEN <<>>
             ELSE <<data>> \o PutAll(Tail(chat_msgs))

\* an on_message that answers a pong as it answers a ping
RepliesToPong(f) ==
    IF f.text = "" THEN <<>>
    ELSE IF f.cmd = CMD_CONNECTED THEN <<RequestRecentMsg(f.sid)>>
    ELSE IF f.cmd \in {CMD_PING, CMD_PONG} THEN <<PongMsg>>
    ELSE <<>>

\* what on_message sends for a frame
Replies(f) ==
    IF f.text = "" THEN <<>>
    ELSE IF f.cmd = CMD_CONNECTED THEN <<RequestRecentMsg(f.sid)>>
    ELSE IF f.cmd = CMD_PING THEN <<PongMsg>>
    ELSE <<>>

\* what on_message puts on the queue for a frame
Puts(f) ==
    IF f.text = "" THEN <<>>
    ELSE IF f.cmd \in {CMD_CONNECTED, CMD_PING, CMD_PONG} THEN <<>>
    ELSE IF f.shape = "none" THEN <<>>
    ELSE IF f.shape \in {"list", "dict"} THEN PutAll(f.msgs)
    ELSE <<>>

\* on_message, called by run_forever with the frame f the server sent
on_message(t, f) ==
    /\ pc[t] = "reading"
    /\ connState[t] = "open"
    /\ sid' = IF f.text # "" /\ f.cmd = CMD_CONNECTED THEN f.sid ELSE sid
    /\ sent' = [sent EXCEPT ![websocket] = @ \o Replies(f)]
    /\ queue' = queue \o Puts(f)
    /\ pushed' = pushed \o Puts(f)
    /\ lastFrame' = [conn |-> t, frame |-> f]

HasCmd(msgs, c) == \E i \in 1..Len(msgs) : msgs[i].cmd = c

\* The frames the server may send next on connection t: the connect-ack
\* answers the connect message and comes first; a recent-history response
\* answers a request; chat events carry one or two new messages.
Posted(kinds) ==
    [i \in 1..Len(kinds) |-> [kind |-> kinds[i], time |-> Len(chatLog) + i]]
NewKinds == {ks \in UNION {[1..n -> Kinds] : n \in 1..2} : Len(chatLog) + Len(ks) <= MaxPosts}

ServerAck(t) ==
    /\ ~acked[t]
    /\ on_message(t, Frame(CMD_CONNECTED, SidOf(t), "dict", <<>>))
    /\ nframes' = nframes
    /\ acked' = [acked EXCEPT ![t] = TRUE]
    /\ UNCHANGED <<chatLog, answered>>

ServerControl(t) ==
    /\ acked[t]
    /\ nframes < MaxFrames
    /\ \E f \in {Frame(CMD_PING, "", "none", <<>>), Frame(CMD_PONG, "", "none", <<>>),
                 EmptyMessage} : on_message(t, f)
    /\ nframes' = nframes + 1
    /\ UNCHANGED <<chatLog, acked, answered>>

ServerChat(t) ==
    /\ acked[t]
    /\ nframes < MaxFrames
    /\ \E ks \in NewKinds :
        /\ on_message(t, Frame(CMD_CHAT, "", "list", LiveRecords(Posted(ks))))
        /\ chatLog' = chatLog \o Posted(ks)
    /\ nframes' = nframes + 1
    /\ UNCHANGED <<acked, answered>>

ServerRecent(t) ==
    /\ acked[t]
    /\ nframes < MaxFrames
    /\ ~answered[t]
    /\ HasCmd(sent[t], CMD_REQUEST_RECENT_CHAT)
    /\ on_message(t, Frame(CMD_RESPONSE_RECENT_CHAT, "", "dict",
                           RecentRecords(Last(chatLog, RecentMessageCount))))
    /\ answered' = [answered EXCEPT ![t] = TRUE]
    /\ nframes' = nframes + 1
    /\ UNCHANGED <<chatLog, acked>>

Receive(t) ==
    /\ \/ ServerAck(t)
       \/ ServerControl(t)
       \/ ServerChat(t)
       \/ ServerRecent(t)
    /\ UNCHANGED <<max_retries, terminated, websocket, websocket_thread, pc,
                   attempt, connState, closeCalls, joinCalls, teardowns,
                   received, lastYield, serverCloses, errors, status>>
    /\ UNCHANGED <<vodVars, auxVars>>

\* the server closes the connection
ServerClose(t) ==
    /\ connState[t] = "open"
    /\ serverCloses < MaxConns - 1
    /\ connState' = [connState EXCEPT ![t] = "server_closed"]
    /\ serverCloses' = serverCloses + 1
    /\ UNCHANGED <<max_retries, terminated, websocket, websocket_thread, sid, queue, pc,
                   attempt, closeCalls, joinCalls, teardowns, sent, nframes, lastFrame,
                   pushed, received, lastYield, chatLog, errors, status, acked, answered>>
    /\ UNCHANGED <<vodVars, auxVars>>

\* an on_close that tries again whoever closed
AlwaysTryAgain == TRUE

\* if not self.terminated: not closed by request, try again
NotClosedByRequest == ~terminated

\* on_close, called by run_forever when the connection is closed: up to
\* connect_websocket's call of get_channel_detail
on_close(t) ==
    /\ pc[t] \in {"starting", "reading"}
    /\ connState[t] \in Closed
    /\ IF NotClosedByRequest
       THEN /\ connState' = CloseRunning
            /\ pc' = [pc EXCEPT ![t] = "cw_detail"]
       ELSE /\ pc' = [pc EXCEPT ![t] = "dead"]
            /\ UNCHANGED connState
    /\ UNCHANGED <<max_retries, terminated, websocket, websocket_thread, sid, queue,
                   attempt, closeCalls, joinCalls, teardowns, sent, nframes,
                   lastFrame, pushed, received, lastYield, chatLog, serverCloses,
                   errors, status, acked, answered>>
    /\ UNCHANGED <<vodVars, auxVars>>

\* ------------------------------------------------------------ terminate
\* terminate(), first statement
TerminateMark(t) ==
    /\ pc[t] = "term1"
    /\ terminated' = TRUE
    /\ teardowns' = teardowns + 1
    /\ pc' = [pc EXCEPT ![t] = "term2"]
    /\ UNCHANGED <<max_retries, websocket, websocket_thread, sid, queue,
                   attempt, connState, closeCalls, joinCalls, sent, nframes,
                   lastFrame, pushed, received, lastYield, chatLog, serverCloses,
                   errors, status, acked, answered>>
    /\ UNCHANGED <<vodVars, auxVars>>

\* where a thread goes when terminate() returns, and when it raises
TerminateReturn(t) == IF t = Main THEN "closed" ELSE "dead"
TerminateRaise(t) == IF t = Main THEN "close_raised" ELSE "dead"

\* terminate(): if self.websocket: self.websocket.close()
TerminateClose(t) ==
    /\ pc[t] = "term2"
    /\ IF websocket = -1
       THEN /\ Raise(t, "AttributeError")
            /\ pc' = [pc EXCEPT ![t] = TerminateRaise(t)]
            /\ UNCHANGED <<connState, closeCalls>>
       ELSE /\ connState' = Close(websocket)
            /\ closeCalls' = [closeCalls EXCEPT ![websocket] = @ + 1]
            /\ pc' = [pc EXCEPT ![t] = "term3"]
            /\ UNCHANGED errors
    /\ UNCHANGED <<max_retries, terminated, websocket, websocket_thread, sid, queue,
                   attempt, joinCalls, teardowns, sent, nframes,
                   lastFrame, pushed, received, lastYield, chatLog, serverCloses,
                   status, acked, answered>>
    /\ UNCHANGED <<vodVars, auxVars>>

\* terminate(): if self.websocket_thread: join it for at most self.timeout,
\* and log an error if it is still alive then.  Thread.join raises
\* RuntimeError when the thread to join is the calling thread.
TerminateJoin(t) ==
    /\ pc[t] = "term3"
    /\ IF websocket_thread = 0
       THEN /\ pc' = [pc EXCEPT ![t] = TerminateReturn(t)]
            /\ UNCHANGED <<joinCalls, errors>>
       ELSE IF websocket_thread = t
       THEN /\ Raise(t, "RuntimeError")
            /\ pc' = [pc EXCEPT ![t] = TerminateRaise(t)]
            /\ UNCHANGED joinCalls
       ELSE /\ joinCalls' = [joinCalls EXCEPT ![websocket_thread] = @ + 1]
            /\ errors' = IF IsAlive(websocket_thread)
                         THEN errors \cup {<<t, "logged: thread not closed">>}
                         ELSE errors
            /\ pc' = [pc EXCEPT ![t] = TerminateReturn(t)]
    /\ UNCHANGED <<max_retries, terminated, websocket, websocket_thread, sid, queue,
                   attempt, connState, closeCalls, teardowns, sent, nframes,
                   lastFrame, pushed, received, lastYield, chatLog, serverCloses,
                   status, acked, answered>>
    /\ UNCHANGED <<vodVars, auxVars>>

\* ------------------------------------------------- the message generator
\* the consumer asks for the next element: the generator runs into queue.get
ConsumerNext ==
    /\ pc[Main] \in {"created", "suspended"}
    /\ pc' = [pc EXCEPT ![Main] = "waiting"]
    /\ UNCHANGED <<max_retries, terminated, websocket, websocket_thread, sid, queue,
                   attempt, connState, closeCalls, joinCalls, teardowns, sent, nframes,
                   lastFrame, pushed, received, lastYield, chatLog, serverCloses,
                   errors, status, acked, answered>>
    /\ UNCHANGED <<vodVars, auxVars>>

\* a queue that hands out the newest record first
QueueGetNewest(q) == [data |-> q[Len(q)], rest |-> SubSeq(q, 1, Len(q) - 1)]

\* queue.get of a FIFO queue: the oldest record, and the rest
QueueGet(q) == [data |-> Head(q), rest |-> Tail(q)]

\* queue.get returns a record, which the generator yields
YieldData ==
    /\ pc[Main] = "waiting"
    /\ queue # <<>>
    /\ LET got == QueueGet(queue) IN
        /\ queue' = got.rest
        /\ received' = Append(received, got.data)
        /\ lastYield' = [from |-> "queue", data |-> got.data]
    /\ pc' = [pc EXCEPT ![Main] = "suspended"]
    /\ UNCHANGED <<max_retries, terminated, websocket, websocket_thread, sid,
                   attempt, connState, closeCalls, joinCalls, teardowns, sent, nframes,
                   lastFrame, pushed, chatLog, serverCloses,
                   errors, status, acked, answered>>
    /\ UNCHANGED <<vodVars, auxVars>>

\* queue.get raises queue.Empty after the timeout: the generator yields {}
YieldIdle ==
    /\ pc[Main] = "waiting"
    /\ queue = <<>>
    /\ lastYield' = [from |-> "timeout", data |-> Empty]
    /\ pc' = [pc EXCEPT ![Main] = "suspended"]
    /\ UNCHANGED <<max_retries, terminated, websocket, websocket_thread, sid, queue,
                   attempt, connState, closeCalls, joinCalls, teardowns, sent, nframes,
                   lastFrame, pushed, received, chatLog, serverCloses,
                   errors, status, acked, answered>>
    /\ UNCHANGED <<vodVars, auxVars>>

\* the consumer abandons the generator: closing a generator suspended at a
\* yield runs its finally block, terminate(); one never started just ends
ConsumerClose ==
    /\ pc[Main] \in {"created", "suspended"}
    /\ pc' = [pc EXCEPT ![Main] = IF pc[Main] = "suspended" THEN "term1" ELSE "closed"]
    /\ UNCHANGED <<max_retries, terminated, websocket, websocket_thread, sid, queue,
                   attempt, connState, closeCalls, joinCalls, teardowns, sent, nframes,
                   lastFrame, pushed, received, lastYield, chatLog, serverCloses,
                   errors, status, acked, answered>>
    /\ UNCHANGED <<vodVars, auxVars>>

\* ------------------------------------------------- the archived source
\* next_player_message_time is None
None == -1

\* attempts(max_retries): the attempt numbers 1..max_retries; retry(n, ...)
\* raises once attempt n has reached the cap and returns otherwise
LastAttempt(attempt_number) == attempt_number >= max_retries

\* a record of a page of an archived chat
VodRecord(m) ==
    [messageTime |-> KindTime(m.kind, m.time), msgTime |-> 0,
     messageTypeCode |-> KindType(m.kind), msgTypeCode |-> 0,
     userIdHash |-> KindUser(m.kind), uid |-> "", userId |-> "",
     profile |-> KindProfile(m.kind), extras |-> KindExtras(m.kind)]

\* The pages the server may answer a request at cursor c with: up to two
\* records, stamped after the cursor, and the next cursor or none
PageKinds == UNION {[1..n -> Kinds] : n \in 0..2}
PageChats(c, ks) == [i \in 1..Len(ks) |-> VodRecord([kind |-> ks[i], time |-> 10 * c + i])]
NextCursors(c) == IF c + 1 < MaxPages THEN {None, c + 1} ELSE {None}

vodLive == <<terminated, websocket, websocket_thread, sid, queue, pc,
             attempt, connState, closeCalls, joinCalls, teardowns, sent, nframes,
             lastFrame, pushed, received, lastYield, chatLog, serverCloses, errors,
             status, acked, answered, auxVars>>

\* get_chat_by_video_id: one request of the video's detail
GetChatByVideoId ==
    /\ vodPc = "detail"
    /\ \E outcome \in {"fail", "available", "unavailable"} :
        \/ /\ outcome = "fail"
           /\ IF LastAttempt(vodAttempt)
              THEN vodPc' = "retries_exceeded" /\ UNCHANGED vodAttempt
              ELSE vodAttempt' = vodAttempt + 1 /\ UNCHANGED vodPc
        \/ /\ outcome = "available"
           /\ vodPc' = "created"
           /\ vodAttempt' = 1
        \/ /\ outcome = "unavailable"
           /\ vodPc' = "VideoUnavailable"
           /\ vodAttempt' = 1
    /\ UNCHANGED <<cursor, vodPending, vodYielded, vodPages, vodRequested>>
    /\ UNCHANGED <<max_retries, vodLive>>

\* while next_player_message_time: a loop that takes the cursor 0 for none
WhileTruthy(c) == c # None /\ c # 0

\* while next_player_message_time is not None
WhileCondition(c) == c # None

\* a failed request that moves on to the following page
CursorSkipped(c) == IF c + 1 < MaxPages THEN c + 1 ELSE None

\* the request raised before next_player_message_time was assigned: the
\* cursor is the one the request was made with
CursorAfterFailure(c) == c

\* the consumer asks for the next element of the generator
VodNext ==
    /\ vodPc \in {"created", "suspended"}
    /\ vodPc' = "running"
    /\ UNCHANGED <<cursor, vodAttempt, vodPending, vodYielded, vodPages, vodRequested>>
    /\ UNCHANGED <<max_retries, vodLive>>

\* _get_chat_messages_by_vod_id: one request of the page at the cursor
VodFetch ==
    /\ vodPc = "running"
    /\ vodPending = <<>>
    /\ WhileCondition(cursor)
    /\ \E outcome \in {"fail", "not200", "ok"} :
        \/ /\ outcome = "fail"
           /\ IF LastAttempt(vodAttempt)
              THEN vodPc' = "retries_exceeded" /\ UNCHANGED vodAttempt
              ELSE vodAttempt' = vodAttempt + 1 /\ UNCHANGED vodPc
           /\ cursor' = CursorAfterFailure(cursor)
           /\ UNCHANGED <<vodPending, vodPages>>
        \/ /\ outcome = "not200"
           /\ vodPc' = "UnexpectedError"
           /\ UNCHANGED <<cursor, vodAttempt, vodPending, vodPages>>
        \/ /\ outcome = "ok"
           /\ \E ks \in PageKinds, nxt \in NextCursors(cursor) :
               /\ cursor' = nxt
               /\ vodPending' = PageChats(cursor, ks)
               /\ vodPages' = Append(vodPages, [at |-> cursor, next |-> nxt,
                                                chats |-> PageChats(cursor, ks)])
           /\ vodAttempt' = 1
           /\ UNCHANGED vodPc
    /\ vodRequested' = cursor
    /\ UNCHANGED vodYielded
    /\ UNCHANGED <<max_retries, vodLive>>

\* the for loop over a page's chats: the next record is parsed and yielded;
\* an exception of _parse_chat leaves the generator
VodYield ==
    /\ vodPc = "running"
    /\ vodPending # <<>>
    /\ LET data == ParseChat(Head(vodPending)) IN
        IF data.kind = "raise"
        THEN /\ vodPc' = "parse_raised"
             /\ UNCHANGED <<vodPending, vodYielded>>
        ELSE /\ vodPc' = "suspended"
             /\ vodPending' = Tail(vodPending)
             /\ vodYielded' = Append(vodYielded, data)
    /\ UNCHANGED <<cursor, vodAttempt, vodPages, vodRequested>>
    /\ UNCHANGED <<max_retries, vodLive>>

\* while next_player_message_time is not None: ...; return
VodReturn ==
    /\ vodPc = "running"
    /\ vodPending = <<>>
    /\ ~WhileCondition(cursor)
    /\ vodPc' = "done"
    /\ UNCHANGED <<cursor, vodAttempt, vodPending, vodYielded, vodPages, vodRequested>>
    /\ UNCHANGED <<max_retries, vodLive>>

\* the consumer abandons the generator
VodClose ==
    /\ vodPc \in {"created", "suspended"}
    /\ vodPc' = "closed"
    /\ UNCHANGED <<cursor, vodAttempt, vodPending, vodYielded, vodPages, vodRequested>>
    /\ UNCHANGED <<max_retries, vodLive>>

\* ---------------------------------------------------------------- Spec
VodInit(at) ==
    /\ vodPc = at /\ cursor = 0 /\ vodAttempt = 1 /\ vodPending = <<>>
    /\ vodYielded = <<>> /\ vodPages = <<>> /\ vodRequested = None

LiveInit(at) ==
    /\ terminated = FALSE
    /\ websocket = -1
    /\ websocket_thread = 0
    /\ sid = ""
    /\ queue = <<>>
    /\ pc = [t \in Threads |-> IF t = Main THEN at ELSE "unborn"]
    /\ attempt = [t \in Threads |-> 0]
    /\ connState = [c \in Conns |-> "none"]
    /\ closeCalls = [c \in Conns |-> 0]
    /\ joinCalls = [c \in Conns |-> 0]
    /\ teardowns = 0
    /\ sent = [c \in Conns |-> <<>>]
    /\ nframes = 0
    /\ lastFrame = [conn |-> 0, frame |-> EmptyMessage]
    /\ pushed = <<>>
    /\ received = <<>>
    /\ lastYield = [from |-> "none", data |-> Empty]
    /\ chatLog = <<>>
    /\ serverCloses = 0
    /\ errors = {}
    /\ status = "none"
    /\ acked = [c \in Conns |-> FALSE]
    /\ answered = [c \in Conns |-> FALSE]

\* the parts of the model a specification leaves out
NotParsed == [kind |-> "not parsed"]
AuxOff ==
    /\ parse = [raw |-> "none", result |-> NotParsed]
    /\ rc = [at |-> "off"]
    /\ soop = [at |-> "off"]

\* the live source, with max_retries as the constructor sets it
Init ==
    /\ max_retries = DefaultMaxRetries
    /\ LiveInit("start")
    /\ VodInit("off")
    /\ AuxOff

Next ==
    \/ GetChatByChannelId
    \/ \E t \in Threads : GetChannelDetail(t)
    \/ \E t \in Threads : GetChatAccessToken(t)
    \/ \E t \in Conns : on_open(t)
    \/ \E t \in Conns : Receive(t)
    \/ \E t \in Conns : ServerClose(t)
    \/ \E t \in Conns : on_close(t)
    \/ \E t \in Threads : TerminateMark(t)
    \/ \E t \in Threads : TerminateClose(t)
    \/ \E t \in Threads : TerminateJoin(t)
    \/ ConsumerNext
    \/ YieldData
    \/ YieldIdle
    \/ ConsumerClose

Spec == Init /\ [][Next]_vars

\* The scheduling the threads give: a thread that can take a step takes it,
\* and a consumer that keeps pulling is answered by queue.get.  The server's
\* frames and closures and the consumer's abandoning are not forced.
ThreadStep ==
    \/ \E t \in Threads : GetChannelDetail(t)
    \/ \E t \in Threads : GetChatAccessToken(t)
    \/ \E t \in Conns : on_open(t)
    \/ \E t \in Conns : on_close(t)
    \/ \E t \in Threads : TerminateMark(t)
    \/ \E t \in Threads : TerminateClose(t)
    \/ \E t \in Threads : TerminateJoin(t)
Pull == ConsumerNext \/ YieldData \/ YieldIdle

FairSpec == Spec /\ WF_vars(ThreadStep) /\ WF_vars(Pull)

\* the archived source, for every max_retries up to the constructor's
InitVod ==
    /\ max_retries \in 1..DefaultMaxRetries
    /\ LiveInit("off")
    /\ VodInit("detail")
    /\ AuxOff

NextVod ==
    \/ GetChatByVideoId
    \/ VodNext
    \/ VodFetch
    \/ VodYield
    \/ VodReturn
    \/ VodClose

SpecVod == InitVod /\ [][NextVod]_vars

\* the remote calls under the retry policy, for every max_retries up to the
\* constructor's: opening a live source and reading an archived one
InitRetry ==
    /\ max_retries \in 1..DefaultMaxRetries
    /\ LiveInit("start")
    /\ VodInit("detail")
    /\ AuxOff

NextRetry ==
    \/ GetChatByChannelId
    \/ GetChannelDetail(Main)
    \/ GetChatAccessToken(Main)
    \/ GetChatByVideoId
    \/ VodNext
    \/ VodFetch
    \/ VodYield
    \/ VodReturn

SpecRetry == InitRetry /\ [][NextRetry]_vars

\* ------------------------------------------------------------------------
\* Properties
\* ------------------------------------------------------------------------
IsPrefix(s, t) == Len(s) <= Len(t) /\ SubSeq(t, 1, Len(s)) = s
Suffix(s, k) == SubSeq(s, Len(s) - k + 1, Len(s))
IsData(r) == r.kind = "data"

\* a raw record the normalizer has a canonical record for: a timestamp, no
\* system type, a profile that is a JSON object, extras absent or a JSON object
WellFormed(chat) ==
    /\ chat.messageTime # 0 \/ chat.msgTime # 0
    /\ chat.messageTypeCode \notin {SYSTEM_MESSAGE, SYSTEM_ANNOUNCE}
    /\ chat.msgTypeCode \notin {SYSTEM_MESSAGE, SYSTEM_ANNOUNCE}
    /\ chat.profile.enc = "json"
    /\ chat.extras.enc \in {"absent", "json"}
\* the id the spec gives a raw record: (author id, message time)
IdOf(chat) ==
    <<IF chat.userIdHash # "" THEN chat.userIdHash
      ELSE IF chat.uid # "" THEN chat.uid ELSE chat.userId,
      IF chat.messageTime # 0 THEN chat.messageTime ELSE chat.msgTime>>
IsChatFrame(f) == f.text # "" /\ f.cmd \in {CMD_CHAT, CMD_RESPONSE_RECENT_CHAT}

\* C1. Bridge ordering: what the generator has taken from the queue, followed
\* by what is still queued, is exactly what was put, in the order of the puts;
\* and the puts of a frame are its records' results in the order of the frame
\* (the results of the records up to the first one that cannot be parsed).
C1_BridgeOrder ==
    /\ received \o queue = pushed
    /\ IsChatFrame(lastFrame.frame) =>
        \E k \in 0..Len(lastFrame.frame.msgs) :
            /\ k <= Len(pushed)
            /\ Suffix(pushed, k) = [i \in 1..k |-> ParseChat(lastFrame.frame.msgs[i])]
            /\ \/ k = Len(lastFrame.frame.msgs)
               \/ ParseChat(lastFrame.frame.msgs[k + 1]).kind = "raise"

\* two different records were put, both were pulled in that order, and the
\* next pull found the queue empty and got the idle marker
C1_Witness ==
    /\ Len(received) = 2
    /\ IsData(received[1]) /\ IsData(received[2])
    /\ received[1].timestamp < received[2].timestamp
    /\ lastYield.from = "timeout"

\* C2. The generator yields an empty record exactly when queue.get timed
\* out: what it yields from the queue is never empty (no empty record is put
\* there), and what it yields on a timeout is.
C2_IdleOnlyOnTimeout ==
    /\ lastYield.from = "queue" => lastYield.data # Empty
    /\ lastYield.from = "timeout" => lastYield.data = Empty

\* C3. terminate() tears down once: however often and from whichever thread
\* it runs, one teardown is performed, each connection is closed at most once
\* by it and each producer thread joined at most once.
C3_SingleTeardown ==
    /\ teardowns <= 1
    /\ \A c \in Conns : closeCalls[c] <= 1 /\ joinCalls[c] <= 1

InReconnect(p) == p \in {"cw_detail", "cw_token", "term1", "term2", "term3"}
C5_Step(t) ==
    /\ (pc[t] \in {"starting", "reading"} /\ pc'[t] \in {"cw_detail", "dead"}) =>
          (pc'[t] = "cw_detail" <=> ~terminated)
    /\ (pc[t] = "cw_detail" /\ pc'[t] = "term1") =>
          (NumConns' = NumConns /\ websocket' = websocket)
    /\ (pc[t] = "term1" /\ pc'[t] # "term1") => terminated'
    /\ (pc[t] = "cw_token" /\ pc'[t] = "dead" /\ errors' = errors) =>
          /\ NumConns' = NumConns + 1
          /\ websocket' = NumConns' /\ websocket_thread' = NumConns'
          /\ pc'[NumConns'] = "starting"
          /\ connState'[NumConns'] = "new"
          /\ sent'[NumConns'] = <<>>
    /\ InReconnect(pc'[t]) => connState'[t] = "server_closed"
C5_ReconnectDecision ==
    [][/\ \A t \in Conns : C5_Step(t)
       /\ (connState' # connState /\ NumConns' > NumConns) =>
            \E t \in Threads : /\ pc[t] = "cw_token"
                               /\ t = Main \/ connState[t] = "server_closed"]_vars

\* the server closed the first connection, the channel was still live, and
\* the second connection has sent its connect message
C5_Witness ==
    /\ connState[1] = "server_closed"
    /\ pc[1] = "dead"
    /\ websocket = 2
    /\ pc[2] = "reading"
    /\ sent[2] = <<ConnectMsg>>
    /\ ~terminated

\* C6. Once the producer has stopped for good (the source was found ended on
\* the reconnect lookup, an error ended the websocket thread, or the handle
\* was terminated), the generator's sequence ends.
ProducerStopped ==
    /\ NumConns > 0
    /\ \A t \in Conns : pc[t] \in {"unborn", "dead"}
GeneratorEnded == pc[Main] \in {"closed", "close_raised"}
C6_SequenceEnds == ProducerStopped ~> GeneratorEnded

\* C7. Handshake.  The first message a connection sends is the connect
\* message; handling the connect-ack sends the request for the recent
\* history (count 50, the ack's session id) as the next message and puts
\* nothing on the queue; handling a chat event of two well-formed records puts
\* their two canonical records, in the frame's order, each with the id made
\* of its author id and message time, and sends nothing.
C7_Ack(t) ==
    (acked'[t] /\ ~acked[t]) =>
        /\ lastFrame'.frame.cmd = CMD_CONNECTED
        /\ sent'[t] = Append(sent[t], [cmd |-> 5101, tid |-> 2,
                                       sid |-> lastFrame'.frame.sid,
                                       recentMessageCount |-> 50])
        /\ queue' = queue
C7_TwoRecords ==
    LET f == lastFrame'.frame
        n == Len(queue)
    IN  (/\ nframes' = nframes + 1
         /\ f.text # "" /\ f.cmd = CMD_CHAT /\ Len(f.msgs) = 2
         /\ WellFormed(f.msgs[1]) /\ WellFormed(f.msgs[2])) =>
            /\ Len(queue') = n + 2
            /\ SubSeq(queue', 1, n) = queue
            /\ \A i \in 1..2 : /\ IsData(queue'[n + i])
                               /\ queue'[n + i].message_id = IdOf(f.msgs[i])
            /\ sent' = sent
C7_Handshake ==
    [][/\ \A c \in Conns : /\ sent'[c] # <<>> => sent'[c][1].cmd = 100
                           /\ connState'[c] = "open" => sent'[c] # <<>>
                           /\ C7_Ack(c)
       /\ C7_TwoRecords]_vars

\* the ack with session S1 was answered by the request, and a chat event of
\* two well-formed records has put their two records
C7_Witness ==
    /\ sent[1] = <<ConnectMsg, RequestRecentMsg("S1")>>
    /\ lastFrame.frame.cmd = CMD_CHAT
    /\ Len(lastFrame.frame.msgs) = 2
    /\ WellFormed(lastFrame.frame.msgs[1]) /\ WellFormed(lastFrame.frame.msgs[2])
    /\ Len(pushed) = 2
    /\ pushed[1].message_id = <<"u1", 1>> /\ pushed[2].message_id = <<"u1", 2>>

\* C8. Archived pagination.  The first page is requested at cursor 0 and each
\* further page at the cursor the page before it returned; no request is made
\* beyond a page that returned no cursor; what is yielded is, in page order,
\* the results of the pages' records; and when the generator returns, the last
\* page returned no cursor and every record's result has been yielded: one
\* page of two well-formed records and no cursor gives two canonical records.
LastPage == vodPages[Len(vodPages)]
RECURSIVE PageResults(_)
PageResults(pages) ==
    IF pages = <<>> THEN <<>>
    ELSE [i \in 1..Len(pages[1].chats) |-> ParseChat(pages[1].chats[i])]
         \o PageResults(Tail(pages))
C8_Pagination ==
    /\ \A i \in 1..Len(vodPages) :
          /\ vodPages[i].at # None
          /\ vodPages[i].at = IF i = 1 THEN 0 ELSE vodPages[i - 1].next
    /\ vodRequested \in
          IF vodPages = <<>> THEN {None, 0}
          ELSE {LastPage.at} \cup (IF LastPage.next = None THEN {} ELSE {LastPage.next})
    /\ IsPrefix(vodYielded, PageResults(vodPages))
    /\ vodPc = "done" =>
          /\ vodPages # <<>>
          /\ LastPage.next = None
          /\ vodYielded = PageResults(vodPages)
    /\ (/\ vodPc = "done" /\ Len(vodPages) = 1 /\ Len(vodPages[1].chats) = 2
        /\ WellFormed(vodPages[1].chats[1]) /\ WellFormed(vodPages[1].chats[2])) =>
          /\ Len(vodYielded) = 2
          /\ \A i \in 1..2 : /\ IsData(vodYielded[i])
                             /\ vodYielded[i].message_id = IdOf(vodPages[1].chats[i])

\* two pages of two well-formed records each were fetched, the second at the
\* cursor of the first, and the generator returned after yielding the four
C8_Witness ==
    /\ vodPc = "done"
    /\ Len(vodPages) = 2
    /\ vodPages[2].at = 1
    /\ Len(vodYielded) = 4
    /\ \A i \in 1..4 : IsData(vodYielded[i])

\* C9. No two canonical records the generator yields carry the same
\* message_id.
C9_UniqueMessageIds ==
    \A i, j \in 1..Len(received) :
        (i < j /\ IsData(received[i]) /\ IsData(received[j])) =>
            received[i].message_id # received[j].message_id

\* C10. A record that cannot be parsed is skipped alone: once a frame is
\* handled, every well-formed record of it has had its canonical record put
\* on the queue, whatever other records the frame holds.
C10_FailureIsLocal ==
    IsChatFrame(lastFrame.frame) =>
        \A i \in 1..Len(lastFrame.frame.msgs) :
            WellFormed(lastFrame.frame.msgs[i]) =>
                \E j \in 1..Len(pushed) :
                    /\ IsData(pushed[j])
                    /\ pushed[j].message_id = IdOf(lastFrame.frame.msgs[i])

\* C10, the archived source: the generator is never ended by an exception
\* of _parse_chat.
C10_VodNotAborted == vodPc # "parse_raised"

\* C11. Terminal failure at open.  When the channel lookup has failed
\* max_retries times, UserNotFound leaves get_chat_by_channel_id: no Chat is
\* returned, and no WebSocketApp and no thread were created.  When the video
\* is reported unavailable, VideoUnavailable leaves get_chat_by_video_id: no
\* generator is returned and no page was requested.
C11_TerminalFailureAtOpen ==
    /\ <<Main, "UserNotFound">> \in errors =>
          /\ pc[Main] = "open_failed"
          /\ status = "none"
          /\ NumConns = 0
          /\ websocket = -1 /\ websocket_thread = 0
          /\ \A t \in Conns : pc[t] = "unborn"
    /\ vodPc = "VideoUnavailable" =>
          /\ vodRequested = None
          /\ vodPages = <<>> /\ vodYielded = <<>>

\* the channel lookup failed five times and the open raised; the video was
\* reported unavailable
C11_Witness ==
    /\ max_retries = DefaultMaxRetries
    /\ <<Main, "UserNotFound">> \in errors
    /\ pc[Main] = "open_failed"
    /\ vodPc = "VideoUnavailable"

\* C12. Cancellation.  Once terminate() has set terminated, the producer
\* creates no WebSocketApp and starts no thread any more.
C12_Cancellation == [][terminated => NumConns' = NumConns]_vars

\* ------------------------------------------------- the normalizer alone
\* The raw records _parse_chat is given: each time field present or not, the
\* type code under either name (99 is a code ChatType has no name for), the
\* user id under userIdHash or uid, and each nested payload absent, None, the
\* text "null", a JSON object, or text that is no JSON.
RawProfiles == {Absent, Enc("none"), Enc("nullstr"), JsonObj("nick", "sub1", 0), Enc("bad")}
RawExtras == {Absent, Enc("none"), Enc("nullstr"), JsonObj("", "None", 3), Enc("bad")}
RawChats ==
    [messageTime : {0, 5}, msgTime : {0, 7},
     messageTypeCode : {0, TEXT, SYSTEM_MESSAGE, SYSTEM_ANNOUNCE, 99},
     msgTypeCode : {0, TEXT, SYSTEM_MESSAGE},
     userIdHash : {"", "h"}, uid : {"u"}, userId : {""},
     profile : RawProfiles, extras : RawExtras]

\* data = self._parse_chat(chat)
ParseOne ==
    /\ parse.raw \in RawChats
    /\ parse.result = NotParsed
    /\ parse' = [parse EXCEPT !.result = ParseChat(parse.raw)]
    /\ UNCHANGED <<liveVars, vodVars, rc, soop>>

\* the next record to parse
NextRaw ==
    /\ parse.result # NotParsed
    /\ \E chat \in RawChats : parse' = [raw |-> chat, result |-> NotParsed]
    /\ UNCHANGED <<liveVars, vodVars, rc, soop>>

InitParse ==
    /\ max_retries = DefaultMaxRetries
    /\ LiveInit("off")
    /\ VodInit("off")
    /\ \E chat \in RawChats : parse = [raw |-> chat, result |-> NotParsed]
    /\ rc = [at |-> "off"]
    /\ soop = [at |-> "off"]

NextParse == ParseOne \/ NextRaw

SpecParse == InitParse /\ [][NextParse]_vars

\* what the spec reads off a raw record
HasTime(chat) == chat.messageTime # 0 \/ chat.msgTime # 0
TypeOf(chat) == IF chat.messageTypeCode # 0 THEN chat.messageTypeCode ELSE chat.msgTypeCode
IsSystemType(chat) == TypeOf(chat) \in {30, 121}
NullEquivalent == {"absent", "none", "nullstr"}
FourEncodings == NullEquivalent \cup {"json"}
WasParsed == parse.result # NotParsed

\* C15. For a record with a timestamp and a non-system type whose profile and
\* extras are each absent, None, the text "null" or a JSON object,
\* _parse_chat does not raise, and the record it returns has display_name ''
\* and subscription None when the profile is absent, None or "null".
C15_NullEquivalentPayloads ==
    (/\ WasParsed
     /\ HasTime(parse.raw) /\ ~IsSystemType(parse.raw)
     /\ parse.raw.profile.enc \in FourEncodings
     /\ parse.raw.extras.enc \in FourEncodings) =>
        /\ parse.result.kind # "raise"
        /\ (parse.result.kind = "data" /\ parse.raw.profile.enc \in NullEquivalent) =>
              /\ parse.result.display_name = ""
              /\ parse.result.subscription = "None"

\* C16. Drop rules.  A record without a timestamp under either name, and a
\* record of type 30 or 121, gives "no record" without raising, whatever its
\* other fields hold; a record of any other type, named or not, with a
\* timestamp and a profile or extras (each in one of the four encodings of
\* C15) gives a record whose message_type is the type's tag.
TagOf(code) ==
    IF code = 1 THEN "text_message"
    ELSE IF code = 99 THEN "unknown_message_99"
    ELSE "unknown_message_0"
DropRules ==
    WasParsed =>
        /\ ~HasTime(parse.raw) => parse.result = Empty
        /\ IsSystemType(parse.raw) => parse.result = Empty
OtherTypesTagged ==
    (/\ WasParsed
     /\ HasTime(parse.raw) /\ ~IsSystemType(parse.raw)
     /\ parse.raw.profile.enc # "absent" \/ parse.raw.extras.enc # "absent"
     /\ parse.raw.profile.enc \in FourEncodings
     /\ parse.raw.extras.enc \in FourEncodings) =>
        /\ parse.result.kind = "data"
        /\ parse.result.message_type = TagOf(TypeOf(parse.raw))
C16_DropRulesAndTags == DropRules /\ OtherTypesTagged

\* ------------------------------------------------- the reconnect cycle alone
\* One handle's connections, one after the other: connect_websocket looks the
\* channel up and fetches the token, each under range(self.max_retries), and
\* starts a connection; the server closes it; on_close, with terminated
\* false, calls connect_websocket again.  rc.reconnects counts the
\* connections on_close has started.
ReconnectLookup ==
    /\ rc.at = "lookup"
    /\ \E outcome \in {"fail", "OPEN", "CLOSE"} :
        \/ /\ outcome = "fail"
           /\ rc' = IF MoreAttempts(rc.attempt + 1)
                    THEN [rc EXCEPT !.attempt = @ + 1]
                    ELSE [rc EXCEPT !.attempt = @ + 1, !.at = "UserNotFound"]
        \/ /\ outcome = "OPEN"
           /\ rc' = [rc EXCEPT !.attempt = 0, !.at = "token"]
        \/ /\ outcome = "CLOSE"
           /\ rc' = [rc EXCEPT !.attempt = 0, !.at = "not live"]
    /\ UNCHANGED <<liveVars, vodVars, parse, soop>>

ReconnectToken ==
    /\ rc.at = "token"
    /\ \E ok \in BOOLEAN :
        \/ /\ ~ok
           /\ rc' = IF MoreAttempts(rc.attempt + 1)
                    THEN [rc EXCEPT !.attempt = @ + 1]
                    ELSE [rc EXCEPT !.attempt = @ + 1, !.at = "SiteError"]
        \/ /\ ok
           /\ rc' = [rc EXCEPT !.attempt = 0, !.at = "streaming",
                               !.reconnects = IF rc.opened THEN @ + 1 ELSE @,
                               !.opened = TRUE]
    /\ UNCHANGED <<liveVars, vodVars, parse, soop>>

\* the server closes the connection and on_close runs, terminated being false
ReconnectOnClose ==
    /\ rc.at = "streaming"
    /\ rc.reconnects < MaxReconnects
    /\ rc' = [rc EXCEPT !.at = "lookup"]
    /\ UNCHANGED <<liveVars, vodVars, parse, soop>>

\* the consumer closes the generator: terminate() closes the connection, and
\* on_close, terminated being true, does nothing
ReconnectTerminate ==
    /\ rc.at = "streaming"
    /\ rc' = [rc EXCEPT !.at = "terminated"]
    /\ UNCHANGED <<liveVars, vodVars, parse, soop>>

InitReconnect ==
    /\ max_retries \in 1..DefaultMaxRetries
    /\ LiveInit("off")
    /\ VodInit("off")
    /\ parse = [raw |-> "none", result |-> NotParsed]
    /\ rc = [at |-> "lookup", attempt |-> 0, reconnects |-> 0, opened |-> FALSE]
    /\ soop = [at |-> "off"]

NextReconnect ==
    \/ ReconnectLookup
    \/ ReconnectToken
    \/ ReconnectOnClose
    \/ ReconnectTerminate

SpecReconnect == InitReconnect /\ [][NextReconnect]_vars

\* C13. Nothing is retried without end: a remote call is attempted at most
\* max_retries times and its last failure is raised, and the connections that
\* on_close starts after closures are at most max_retries, too.
C13_NothingRetriedForever ==
    rc.at # "off" =>
        /\ rc.attempt <= max_retries
        /\ rc.at \in {"UserNotFound", "SiteError"} <=> rc.attempt = max_retries
        /\ rc.reconnects <= max_retries

\* C14. Consumer-driven teardown.  Once the consumer has closed the
\* sequence and the generator's finally block has run terminate(), the
\* transport comes to rest: no connection is new or open and no websocket
\* thread is running.
ConsumerTornDown == teardowns > 0 /\ pc[Main] \in {"closed", "close_raised"}
TransportAtRest ==
    /\ \A c \in Conns : connState[c] \notin {"new", "open"}
    /\ \A t \in Conns : pc[t] \in {"unborn", "dead"}
C14_ConsumerDrivenTeardown == ConsumerTornDown ~> TransportAtRest

\* ------------------------------------------------- one connection's frames
\* The opening call and the first connection, with every kind of frame: the
\* frames of Receive, and frames that have no bdy or a bdy that is neither a
\* list nor a dict.
NoBodyFrame == Frame(CMD_CHAT, "", "none", <<>>)
OddBodyFrame == Frame(CMD_CHAT, "", "other", <<>>)
ReceiveBare(t) ==
    /\ acked[t]
    /\ nframes < MaxFrames
    /\ \E f \in {NoBodyFrame, OddBodyFrame} : on_message(t, f)
    /\ nframes' = nframes + 1
    /\ UNCHANGED <<chatLog, acked, answered>>
    /\ UNCHANGED <<max_retries, terminated, websocket, websocket_thread, pc,
                   attempt, connState, closeCalls, joinCalls, teardowns,
                   received, lastYield, serverCloses, errors, status>>
    /\ UNCHANGED <<vodVars, auxVars>>

NextFrames ==
    \/ GetChatByChannelId
    \/ GetChannelDetail(Main)
    \/ GetChatAccessToken(Main)
    \/ \E t \in Conns : on_open(t)
    \/ \E t \in Conns : Receive(t)
    \/ \E t \in Conns : ReceiveBare(t)

SpecFrames == Init /\ [][NextFrames]_vars

\* C17. Control frames produce no output.  Handling a connect-ack, a ping, a
\* pong, an empty message or a frame without bdy leaves the queue as it was;
\* a ping is answered by one pong message and nothing else; a pong, an empty
\* message and a frame without bdy are answered by nothing.
C17_Step ==
    LET f == lastFrame'.frame
        t == lastFrame'.conn
        isJson == f.text # ""
    IN  (nframes' # nframes \/ acked' # acked) =>
          /\ (~isJson \/ f.cmd \in {10100, 0, 10000} \/ f.shape = "none") =>
                queue' = queue /\ pushed' = pushed
          /\ (isJson /\ f.cmd = 0) =>
                /\ Len(sent'[t]) = Len(sent[t]) + 1
                /\ SubSeq(sent'[t], 1, Len(sent[t])) = sent[t]
                /\ sent'[t][Len(sent'[t])].cmd = 10000
                /\ \A c \in Conns \ {t} : sent'[c] = sent[c]
          /\ (~isJson \/ f.cmd = 10000 \/ (f.cmd \notin {10100, 0} /\ f.shape = "none")) =>
                sent' = sent
C17_ControlFrames == [][C17_Step]_vars

\* after the handshake a ping was answered by a pong and a frame without
\* bdy by nothing, and nothing was put
C17_Witness ==
    /\ sent[1] = <<ConnectMsg, RequestRecentMsg("S1"), PongMsg>>
    /\ lastFrame.frame = NoBodyFrame
    /\ nframes = 2
    /\ pushed = <<>> /\ queue = <<>>

\* C18. Shutdown timeout is a report.  terminate() on a handle that has a
\* connection never raises, whichever thread runs it: a thread that has not
\* stopped in time is logged, and terminate() returns.
C18_TerminateNeverRaises ==
    /\ \A t \in Threads : <<t, "RuntimeError">> \notin errors
    /\ websocket # -1 => \A t \in Threads : <<t, "AttributeError">> \notin errors
    /\ \A t \in Conns : joinCalls[t] > 0 => terminated /\ closeCalls[t] > 0

\* C19. terminate() completes without an error from every state, also on a
\* handle whose channel was found not live (status 'upcoming', no
\* WebSocketApp and no thread ever created): the consumer's closing of its
\* sequence ends in "closed".
C19_TerminateFromEveryState ==
    /\ pc[Main] # "close_raised"
    /\ (status = "upcoming" /\ teardowns > 0) => <<Main, "AttributeError">> \notin errors

\* ------------------------------------------------- the Soop downloader
\* soop.at is where the handle's consumer is, soop.gen the generator the
\* handle was given, soop.open the sessions and connections that are open,
\* soop.thread the thread of afreeca_chat_recv_loop, soop.callback whether
\* _chat_callback is registered, soop.cleanup whether the closing task was
\* handed to the loop.
Resources == {"credential_session", "session", "keepalive_task", "connection"}

\* a close_all_aiohttp_connections that forgets the credential's session
CloseAllButCredential(open) == open \ {"session", "keepalive_task", "connection"}

\* close_all_aiohttp_connections: each of the four, if set, is closed
CloseAll(open) ==
    ((open \ {"credential_session"}) \ {"session"}) \ {"keepalive_task", "connection"}

SoopOff(at) ==
    [at |-> at, gen |-> "none", status |-> "none", open |-> {}, thread |-> "none",
     callback |-> FALSE, cleanup |-> "none", queue |-> <<>>, yielded |-> <<>>,
     pulls |-> 0, posts |-> 0]

\* get_chat_by_username: the login, create_chat, add_callback and connect
GetChatByUsername ==
    /\ soop.at = "start"
    /\ \E outcome \in {"no credentials", "connected", "not streaming"} :
        \/ /\ outcome = "no credentials"
           /\ soop' = [soop EXCEPT !.at = "AssertionError"]
        \/ /\ outcome = "connected"
           /\ soop' = [soop EXCEPT !.at = "created", !.gen = "messages",
                                   !.status = "live", !.open = Resources,
                                   !.callback = TRUE]
        \/ /\ outcome = "not streaming"
           /\ \E left \in SUBSET Resources :
                soop' = [soop EXCEPT !.at = "created", !.gen = "empty",
                                     !.status = "upcoming",
                                     !.open = CloseAll(left \cup {"credential_session"}),
                                     !.callback = TRUE]
    /\ UNCHANGED <<liveVars, vodVars, parse, rc>>

\* the consumer's pull: _get_chat_messages starts the thread on its first
\* pull and then waits in queue.get; _get_empty_generator yields {} on the
\* first pull and returns on the second
SoopNext ==
    /\ soop.at \in {"created", "suspended"}
    /\ soop.pulls < MaxPulls
    /\ soop' =
         IF soop.gen = "messages"
         THEN [soop EXCEPT !.at = "waiting", !.pulls = @ + 1,
                           !.thread = IF soop.at = "created" THEN "running" ELSE @]
         ELSE IF soop.at = "created"
         THEN [soop EXCEPT !.at = "suspended", !.pulls = @ + 1,
                           !.yielded = Append(@, Empty)]
         ELSE [soop EXCEPT !.at = "done", !.pulls = @ + 1]
    /\ UNCHANGED <<liveVars, vodVars, parse, rc>>

\* _chat_callback, on the thread's loop: a record is put on the queue
ChatCallback ==
    /\ soop.thread = "running"
    /\ soop.callback
    /\ soop.posts < MaxPosts
    /\ soop' = [soop EXCEPT !.posts = @ + 1,
                            !.queue = Append(@, [kind |-> "data",
                                                 message_id |-> <<"sender", soop.posts + 1>>])]
    /\ UNCHANGED <<liveVars, vodVars, parse, rc>>

SoopYieldData ==
    /\ soop.at = "waiting"
    /\ soop.queue # <<>>
    /\ soop' = [soop EXCEPT !.at = "suspended", !.queue = QueueGet(soop.queue).rest,
                            !.yielded = Append(@, QueueGet(soop.queue).data)]
    /\ UNCHANGED <<liveVars, vodVars, parse, rc>>

SoopYieldIdle ==
    /\ soop.at = "waiting"
    /\ soop.queue = <<>>
    /\ soop' = [soop EXCEPT !.at = "suspended", !.yielded = Append(@, Empty)]
    /\ UNCHANGED <<liveVars, vodVars, parse, rc>>

\* the consumer closes the sequence: a generator suspended at a yield runs
\* its finally block (_get_chat_messages: remove_callback, and the closing
\* task is handed to the loop); one never started just ends
SoopClose ==
    /\ soop.at \in {"created", "suspended"}
    /\ soop' =
         IF soop.gen = "messages" /\ soop.at = "suspended"
         THEN [soop EXCEPT !.at = "closed", !.callback = FALSE, !.cleanup = "scheduled"]
         ELSE [soop EXCEPT !.at = "closed"]
    /\ UNCHANGED <<liveVars, vodVars, parse, rc>>

InitSoop ==
    /\ max_retries = DefaultMaxRetries
    /\ LiveInit("off")
    /\ VodInit("off")
    /\ parse = [raw |-> "none", result |-> NotParsed]
    /\ rc = [at |-> "off"]
    /\ soop = SoopOff("start")

NextSoop ==
    \/ GetChatByUsername
    \/ SoopNext
    \/ ChatCallback
    \/ SoopYieldData
    \/ SoopYieldIdle
    \/ SoopClose

SpecSoop == InitSoop /\ [][NextSoop]_vars

\* C20. A target that is not streaming: every session and connection is
\* closed when the handle is returned, no thread is ever started, the status
\* is 'upcoming' and the sequence is one idle marker and then the end.  A
\* target that is streaming: the status is 'live' and the thread is started
\* at the first pull, not before.
C20_NotStreaming ==
    /\ soop.gen = "empty" <=> soop.status = "upcoming"
    /\ soop.gen = "messages" <=> soop.status = "live"
    /\ soop.status = "upcoming" =>
          /\ soop.open = {}
          /\ soop.thread = "none"
          /\ IsPrefix(soop.yielded, <<Empty>>)
          /\ soop.pulls >= 1 => soop.yielded = <<Empty>>
          /\ soop.at = "done" <=> soop.pulls = 2
          /\ soop.pulls <= 2
    /\ soop.status = "live" =>
          (soop.thread = "running" <=> soop.pulls >= 1)

\* the target was not streaming: the handle's sequence gave one idle marker
\* and ended, with nothing open and no thread
C20_Witness ==
    /\ soop.status = "upcoming"
    /\ soop.at = "done"
    /\ soop.yielded = <<Empty>>
    /\ soop.open = {}
    /\ soop.thread = "none"

\* C21. Archived source, retries.  A failed page request changes nothing but
\* the attempt number: the cursor, the pages and what was yielded stay, and
\* the next request is made at the same cursor; the cursor changes only with
\* a successful response, which adds one page, fetched at the cursor held;
\* and at every moment what was yielded, followed by the results of the
\* records of the current page still to come, is the results of the records
\* of the pages fetched, each once and in order.
RECURSIVE Results(_)
Results(chats) ==
    IF chats = <<>> THEN <<>> ELSE <<ParseChat(Head(chats))>> \o Results(Tail(chats))
C21_Step ==
    /\ (vodPc = "running" /\ vodAttempt' > vodAttempt) =>
          /\ UNCHANGED <<cursor, vodPages, vodYielded, vodPending>>
          /\ vodRequested' = cursor
    /\ vodRequested' # vodRequested => vodRequested' = cursor
    /\ cursor' # cursor =>
          /\ Len(vodPages') = Len(vodPages) + 1
          /\ vodPages'[Len(vodPages')].at = cursor
          /\ vodPages'[Len(vodPages')].next = cursor'
          /\ vodPending' = vodPages'[Len(vodPages')].chats
          /\ vodYielded' = vodYielded
    /\ vodPages' # vodPages => cursor' # cursor
C21_RetryNeitherDuplicatesNorSkips ==
    /\ [](vodYielded \o Results(vodPending) = PageResults(vodPages))
    /\ [][C21_Step]_vars

\* the first page's two records were yielded, and the request of the second
\* page, at the cursor the first returned, has failed twice and is tried again
C21_Witness ==
    /\ vodPc = "running"
    /\ vodAttempt = 3
    /\ Len(vodPages) = 1 /\ vodPages[1].next = 1
    /\ cursor = 1 /\ vodRequested = 1
    /\ Len(vodYielded) = 2
    /\ vodPending = <<>>

====
